---- MODULE Spec2Model ----
(***************************************************************************)
(* Age / gender prediction service: one inference pipeline (predictor.py)  *)
(* behind an HTTP frontend (main.py) and a gRPC frontend (grpc_server.py). *)
(*                                                                         *)
(* Text is modelled as sequences of one-character strings (age buckets,    *)
(* gender labels) or of words (error messages); confidences are integer    *)
(* percentages; normalised box coordinates are integer multiples of        *)
(* 1/CoordDen.                                                             *)
(***************************************************************************)
EXTENDS Integers, Sequences, FiniteSets, TLC

VARIABLES
    face_net, age_net, gender_net,   \* predictor.py module globals
    lpc,                             \* position in the module-level load
    http_resp, rpc_resp, health_resp,\* last response of each endpoint
    reqs,                            \* in-flight requests (concurrent view)
    age_range, age_group,            \* map_age_to_group: argument, result
    frame_w, frame_h, detections, best_face_box, \* _find_face: inputs, result
    image_bytes, pipeline_result     \* predict_age_gender: argument, result

vars == <<face_net, age_net, gender_net, lpc, http_resp, rpc_resp,
          health_resp, reqs, age_range, age_group,
          frame_w, frame_h, detections, best_face_box,
          image_bytes, pipeline_result>>

mapVars == <<age_range, age_group>>
faceVars == <<frame_w, frame_h, detections, best_face_box>>
pipeVars == <<image_bytes, pipeline_result>>
netVars == <<face_net, age_net, gender_net, lpc>>
respVars == <<http_resp, rpc_resp, health_resp>>

(***************************************************************************)
(* Bounds of the model.                                                    *)
(***************************************************************************)
MaxStrLen == 4
MaxDets == 2
MaxReq == 2
ImgW == 4
ImgH == 3
CoordDen == 2

(***************************************************************************)
(* Python string primitives used by the code.                              *)
(***************************************************************************)
Digits == {"0", "1", "2", "3", "4", "5", "6", "7", "8", "9"}
Whitespace == {" "}

DigitVal(c) ==
    CASE c = "0" -> 0 [] c = "1" -> 1 [] c = "2" -> 2 [] c = "3" -> 3
      [] c = "4" -> 4 [] c = "5" -> 5 [] c = "6" -> 6 [] c = "7" -> 7
      [] c = "8" -> 8 [] c = "9" -> 9 [] OTHER -> 0

RECURSIVE PyLStrip(_, _)
PyLStrip(s, cs) ==
    IF s = <<>> \/ Head(s) \notin cs THEN s ELSE PyLStrip(Tail(s), cs)

RECURSIVE PyRStrip(_, _)
PyRStrip(s, cs) ==
    IF s = <<>> \/ s[Len(s)] \notin cs THEN s
    ELSE PyRStrip(SubSeq(s, 1, Len(s) - 1), cs)

\* str.strip(chars): drops leading and trailing characters that are in chars
PyStrip(s, cs) == PyRStrip(PyLStrip(s, cs), cs)

\* str.split(sep) for a one-character separator: always at least one part
RECURSIVE PySplitFrom(_, _, _)
PySplitFrom(s, sep, cur) ==
    IF s = <<>> THEN <<cur>>
    ELSE IF Head(s) = sep THEN <<cur>> \o PySplitFrom(Tail(s), sep, <<>>)
    ELSE PySplitFrom(Tail(s), sep, Append(cur, Head(s)))

PySplit(s, sep) == PySplitFrom(s, sep, <<>>)

RECURSIVE DecimalValue(_, _)
DecimalValue(ds, acc) ==
    IF ds = <<>> THEN acc
    ELSE IF Head(ds) = "_" THEN DecimalValue(Tail(ds), acc)
    ELSE DecimalValue(Tail(ds), 10 * acc + DigitVal(Head(ds)))

\* digits, with single underscores allowed only between two digits
WellFormedDigits(ds) ==
    /\ Len(ds) > 0
    /\ \A i \in 1..Len(ds) : ds[i] \in Digits \cup {"_"}
    /\ ds[1] # "_" /\ ds[Len(ds)] # "_"
    /\ \A i \in 1..(Len(ds) - 1) : ~(ds[i] = "_" /\ ds[i + 1] = "_")

\* int(text): surrounding whitespace, an optional sign, decimal digits;
\* anything else raises ValueError
PyInt(t) ==
    LET body == PyStrip(t, Whitespace)
        signed == body # <<>> /\ Head(body) \in {"+", "-"}
        ds == IF signed THEN Tail(body) ELSE body
        mag == DecimalValue(ds, 0)
    IN  IF WellFormedDigits(ds)
        THEN [raised |-> "", val |-> IF signed /\ Head(body) = "-" THEN 0 - mag ELSE mag]
        ELSE [raised |-> "ValueError", val |-> 0]

\* str.lower() on the ASCII letters the labels use
LowerChar(c) ==
    CASE c = "M" -> "m" [] c = "F" -> "f" [] OTHER -> c

PyLower(s) == [i \in 1..Len(s) |-> LowerChar(s[i])]

(***************************************************************************)
(* predictor.py constants.                                                 *)
(***************************************************************************)
FACE_CONFIDENCE_THRESHOLD == 50

AGE_BUCKETS ==
    << <<"(", "0", "-", "2", ")">>,
       <<"(", "4", "-", "6", ")">>,
       <<"(", "8", "-", "1", "2", ")">>,
       <<"(", "1", "5", "-", "2", "0", ")">>,
       <<"(", "2", "5", "-", "3", "2", ")">>,
       <<"(", "3", "8", "-", "4", "3", ")">>,
       <<"(", "4", "8", "-", "5", "3", ")">>,
       <<"(", "6", "0", "-", "1", "0", "0", ")">> >>

GENDER_LIST == << <<"M", "a", "l", "e">>, <<"F", "e", "m", "a", "l", "e">> >>

(***************************************************************************)
(* grpc_server.map_age_to_group                                            *)
(***************************************************************************)
AgeGroups == {"child", "teen", "young_adult", "adult", "senior"}

\* the except clause catching only IndexError: a ValueError escapes
map_age_to_group_uncaught(range) ==
    LET stripped == PyStrip(range, {"(", ")"})
        parts == PySplit(stripped, "-")
        parsed == PyInt(parts[1])
        min_age == parsed.val
    IN  IF parsed.raised # "" THEN parsed.raised
        ELSE IF min_age < 13 THEN "child"
        ELSE IF min_age < 20 THEN "teen"
        ELSE IF min_age < 35 THEN "young_adult"
        ELSE IF min_age < 50 THEN "adult"
        ELSE "senior"

map_age_to_group(range) ==
    LET stripped == PyStrip(range, {"(", ")"})
        parts == PySplit(stripped, "-")
        parsed == PyInt(parts[1])
        min_age == parsed.val
    IN  IF parsed.raised # "" THEN "adult"
        ELSE IF min_age < 13 THEN "child"
        ELSE IF min_age < 20 THEN "teen"
        ELSE IF min_age < 35 THEN "young_adult"
        ELSE IF min_age < 50 THEN "adult"
        ELSE "senior"

(***************************************************************************)
(* predictor._find_face                                                    *)
(*                                                                         *)
(* A detection is [confidence, box]; box = <<x1, y1, x2, y2>> holds the    *)
(* numerators of the normalised coordinates over CoordDen.  None is <<>>.  *)
(***************************************************************************)
None == <<>>

Max(a, b) == IF a >= b THEN a ELSE b
Min(a, b) == IF a <= b THEN a ELSE b

\* ndarray.astype("int"): truncation toward zero
TruncDiv(n, d) == IF n >= 0 THEN n \div d ELSE 0 - ((0 - n) \div d)

\* detections[0, 0, i, 3:7] * [w, h, w, h], cast to int
ScaleBox(box, w, h) ==
    << TruncDiv(box[1] * w, CoordDen), TruncDiv(box[2] * h, CoordDen),
       TruncDiv(box[3] * w, CoordDen), TruncDiv(box[4] * h, CoordDen) >>

\* clamping to w - 1 replaced by clamping to w (the slice bound)
ClampBoxToSize(b, w, h) ==
    << Max(0, b[1]), Max(0, b[2]), Min(w, b[3]), Min(h, b[4]) >>

ClampBox(b, w, h) ==
    << Max(0, b[1]), Max(0, b[2]), Min(w - 1, b[3]), Min(h - 1, b[4]) >>

\* one pass of the for loop, from detection i on; st = [best, maxc]
RECURSIVE FaceLoop(_, _, _, _, _)
FaceLoop(dets, i, w, h, st) ==
    IF i > Len(dets) THEN st
    ELSE
      LET confidence == dets[i].confidence
          c == ClampBox(ScaleBox(dets[i].box, w, h), w, h)
          next ==
            IF confidence > FACE_CONFIDENCE_THRESHOLD /\ confidence > st.maxc
            THEN [maxc |-> confidence,
                  best |-> IF c[3] > c[1] /\ c[4] > c[2] THEN c ELSE st.best]
            ELSE st
      IN  FaceLoop(dets, i + 1, w, h, next)

\* net: the face_net handle; dets: what face_net.forward() returned
find_face(net, w, h, dets) ==
    IF net.state # "net" THEN None
    ELSE FaceLoop(dets, 1, w, h, [best |-> None, maxc |-> 0]).best

(***************************************************************************)
(* Model handles and request payloads.                                     *)
(*                                                                         *)
(* A handle is [state, input]: state "unset" before the load assigns the   *)
(* name, "none" for Python None, "net" for a loaded cv2.dnn net; input is  *)
(* the blob the last setInput stored in the net.                           *)
(*                                                                         *)
(* A payload stands for the request's bytes together with what the         *)
(* external decoder and networks compute from them: dec is cv2.imdecode's  *)
(* outcome, dets / gender_preds / age_preds the networks' outputs on this  *)
(* picture, fault an exception the inference engine raises on it.          *)
(***************************************************************************)
Unset == [state |-> "unset", input |-> None]
NoneHandle == [state |-> "none", input |-> None]
LoadedNet == [state |-> "net", input |-> None]

IsNone(net) == net.state = "none"
\* the truth value of a handle in all([...]) / "a and b and c"
Truthy(net) == net.state = "net"

ErrTexts == { <<"bad", "blob">>, <<"No", "face", "detected">> }

Payload(e, d, t, w, h, ds, gp, ap, f) ==
    [empty |-> e, dec |-> d, errtext |-> t, w |-> w, h |-> h, dets |-> ds,
     gender_preds |-> gp, age_preds |-> ap, fault |-> f]

Det(c, b) == [confidence |-> c, box |-> b]

\* detection lists of the request pictures: none, one below the threshold,
\* one face inside the picture
FrameDets ==
    { <<>>,
      << Det(FACE_CONFIDENCE_THRESHOLD, <<0, 0, 1, 1>>) >>,
      << Det(90, <<0, 0, 1, 1>>) >> }

\* score vectors of the two classifiers on a face: Male / (0-2),
\* Female / (25-32), a gender tie / (60-100)
ClassifierOutputs ==
    { [g |-> <<9, 1>>, a |-> <<9, 1, 1, 1, 1, 1, 1, 1>>],
      [g |-> <<1, 9>>, a |-> <<1, 1, 1, 1, 9, 1, 1, 1>>],
      [g |-> <<5, 5>>, a |-> <<1, 1, 1, 1, 1, 1, 1, 9>>] }

NoPreds == <<>>

EmptyPayloads ==
    { Payload(TRUE, "none", <<>>, 0, 0, <<>>, NoPreds, NoPreds, ""),
      Payload(TRUE, "cv2.error", <<"buf", "empty">>, 0, 0, <<>>, NoPreds, NoPreds, "") }

UndecodablePayloads ==
    { Payload(FALSE, "none", <<>>, 0, 0, <<>>, NoPreds, NoPreds, "") }
    \cup { Payload(FALSE, "cv2.error", t, 0, 0, <<>>, NoPreds, NoPreds, "") : t \in ErrTexts }
    \cup { Payload(FALSE, "frame", <<>>, 0, ImgH, <<>>, NoPreds, NoPreds, "") }

FramePayloads ==
    { Payload(FALSE, "frame", <<>>, ImgW, ImgH, ds, o.g, o.a, "") :
        ds \in FrameDets, o \in ClassifierOutputs }

FaultPayloads ==
    { Payload(FALSE, "frame", t, ImgW, ImgH, << Det(90, <<0, 0, 1, 1>>) >>,
              <<9, 1>>, <<9, 1, 1, 1, 1, 1, 1, 1>>, f) :
        t \in ErrTexts, f \in {"cv2.error", "Exception"} }

Payloads == EmptyPayloads \cup UndecodablePayloads \cup FramePayloads \cup FaultPayloads

(***************************************************************************)
(* The external networks: forward() computes from the net's stored input.  *)
(***************************************************************************)
\* cv2.dnn.blobFromImage of a region of a decoded picture
Blob(image, region) == [pix |-> image, region |-> region]

\* a value returned, or an exception raised, by a call
Returned(v) == [raised |-> "", text |-> <<>>, val |-> v]
Raised(kind, text) == [raised |-> kind, text |-> text, val |-> None]

FaceNetForward(net) == Returned(net.input.pix.dets)

GenderNetForward(net) ==
    IF net.input.pix.fault # ""
    THEN Raised(net.input.pix.fault, net.input.pix.errtext)
    ELSE Returned(net.input.pix.gender_preds)

AgeNetForward(net) ==
    IF net.input.pix.fault # ""
    THEN Raised(net.input.pix.fault, net.input.pix.errtext)
    ELSE Returned(net.input.pix.age_preds)

\* numpy argmax: the first index of the maximum (1-based here)
ArgMax(v) ==
    CHOOSE i \in 1..Len(v) :
        /\ \A j \in 1..Len(v) : v[j] <= v[i]
        /\ \A j \in 1..(i - 1) : v[j] < v[i]

(***************************************************************************)
(* predictor.predict_age_gender                                            *)
(*                                                                         *)
(* A dict is a record; the call's outcome is Returned(None),               *)
(* Returned(dict) or Raised(kind, text).  face_out, gender_out and age_out *)
(* are the outcomes of the three forward() calls.                          *)
(***************************************************************************)
padding == 20

NoFaceDetected == <<"No", "face", "detected">>

WholeFrame(image) == <<0, 0, image.w, image.h>>

\* frame[max(0, startY - padding):min(h, endY + padding),
\*       max(0, startX - padding):min(w, endX + padding)] as <<x0, y0, x1, y1>>
CropRegion(box, w, h) ==
    << Max(0, box[1] - padding), Max(0, box[2] - padding),
       Min(w, box[3] + padding), Min(h, box[4] + padding) >>

\* ndarray.size of the slice: rows * columns * 3 channels
CropSize(region) ==
    Max(0, region[4] - region[2]) * Max(0, region[3] - region[1]) * 3

\* the body of the try block, lines 90-135
pipeline_try(image, fnet, face_out, gender_out, age_out) ==
    IF image.dec = "cv2.error" THEN Raised("cv2.error", image.errtext)
    ELSE IF image.dec = "none" THEN Returned(None)
    ELSE IF image.h = 0 \/ image.w = 0 THEN Returned(None)
    ELSE
      LET face_box == find_face(fnet, image.w, image.h, face_out.val)
      IN  IF face_box = None THEN Returned([error |-> NoFaceDetected])
          ELSE IF CropSize(CropRegion(face_box, image.w, image.h)) = 0
          THEN Returned([error |-> <<"Failed", "to", "extract", "face", "region">>])
          ELSE IF gender_out.raised # "" THEN gender_out
          ELSE IF age_out.raised # "" THEN age_out
          ELSE Returned([age |-> AGE_BUCKETS[ArgMax(age_out.val)],
                         gender |-> GENDER_LIST[ArgMax(gender_out.val)]])

\* the handler list without the final "except Exception"
predict_age_gender_only_cv(image, fnet, anet, gnet, face_out, gender_out, age_out) ==
    IF IsNone(anet) \/ IsNone(gnet) THEN Returned(None)
    ELSE
      LET r == pipeline_try(image, fnet, face_out, gender_out, age_out)
      IN  IF r.raised = "cv2.error"
          THEN Returned([error |-> <<"OpenCV", "processing", "error:">> \o r.text])
          ELSE r

\* predict_age_gender, given what the three forward() calls return
predict_age_gender_from(image, fnet, anet, gnet, face_out, gender_out, age_out) ==
    IF IsNone(anet) \/ IsNone(gnet) THEN Returned(None)
    ELSE
      LET r == pipeline_try(image, fnet, face_out, gender_out, age_out)
      IN  IF r.raised = "cv2.error"
          THEN Returned([error |-> <<"OpenCV", "processing", "error:">> \o r.text])
          ELSE IF r.raised # ""
          THEN Returned([error |-> <<"An", "unexpected", "server", "error",
                                     "occurred:">> \o r.text])
          ELSE r

SetInput(net, blob) == [net EXCEPT !.input = blob]

\* predict_age_gender run alone: every forward() reads the blob this call
\* has just stored
predict_age_gender(image, fnet, anet, gnet) ==
    LET face_out == FaceNetForward(SetInput(fnet, Blob(image, WholeFrame(image))))
        face_box == find_face(fnet, image.w, image.h, face_out.val)
        face_blob == Blob(image, CropRegion(face_box, image.w, image.h))
    IN  predict_age_gender_from(image, fnet, anet, gnet, face_out,
                                GenderNetForward(SetInput(gnet, face_blob)),
                                AgeNetForward(SetInput(anet, face_blob)))

(***************************************************************************)
(* Error messages are sequences of words; "sub in msg" is containment of   *)
(* a contiguous run of words.                                              *)
(***************************************************************************)
Contains(msg, sub) ==
    \E i \in 0..(Len(msg) - Len(sub)) : SubSeq(msg, i + 1, i + Len(sub)) = sub

(***************************************************************************)
(* The frontends.  A response is [status, detail, body, invoked, result,   *)
(* image, readfail]: invoked tells whether predict_age_gender was called,  *)
(* result is what it returned.                                             *)
(***************************************************************************)
NotCalled == Returned(None)
NoBody == [k \in {} |-> 0]

Response(st, detail, body, invoked, result, image, readfail) ==
    [status |-> st, detail |-> detail, body |-> body, invoked |-> invoked,
     result |-> result, image |-> image, readfail |-> readfail]

\* "if not contents" in main.predict
http_empty(contents) == contents.empty

\* the emptiness test left out of the gRPC handler
rpc_empty_unchecked(request) == FALSE

\* "if not request.image_data" in ValmikiServicer.Predict
rpc_empty(request) == request.empty

\* main.health_check
health_check(fnet, anet, gnet) ==
    IF ~(Truthy(fnet) /\ Truthy(anet) /\ Truthy(gnet)) THEN 503 ELSE 200

\* the error branch of main.predict, lines 93-98
http_error_status(message) ==
    IF Contains(message, NoFaceDetected) THEN 400 ELSE 500

\* main.predict from line 89 on: out is what predict_age_gender did
http_translate(file, readfail, out) ==
    LET results == out.val
    IN  IF out.raised # ""
        THEN Response(500, <<"An", "internal", "error", "occurred:">> \o out.text,
                      NoBody, TRUE, out, file, readfail)
        ELSE IF results = None
        THEN Response(500, <<"Prediction", "failed.">>, NoBody, TRUE, out, file, readfail)
        ELSE IF "error" \in DOMAIN results
        THEN Response(http_error_status(results.error), results.error,
                      NoBody, TRUE, out, file, readfail)
        ELSE Response(200, <<>>,
                      IF "age" \in DOMAIN results
                      THEN [age |-> results.age, gender |-> results.gender,
                            age_group |-> map_age_to_group(results.age)]
                      ELSE results,
                      TRUE, out, file, readfail)

\* main.predict up to line 84: the response when the request is answered
\* before the pipeline is called, None otherwise
http_refuse(file, readfail, fnet, anet, gnet) ==
    IF ~(Truthy(fnet) /\ Truthy(anet) /\ Truthy(gnet))
    THEN Response(503, <<"Models", "are", "not", "loaded,", "service", "cannot",
                         "process", "requests.">>, NoBody, FALSE, NotCalled, file, readfail)
    ELSE IF readfail
    THEN Response(400, <<"Error", "reading", "file:", "read", "failed">>,
                  NoBody, FALSE, NotCalled, file, readfail)
    ELSE IF http_empty(file)
    THEN Response(400, <<"Error", "reading", "file:", "Empty", "file", "received.">>,
                  NoBody, FALSE, NotCalled, file, readfail)
    ELSE None

\* main.predict; readfail: file.read() raises
predict(file, readfail, fnet, anet, gnet) ==
    IF http_refuse(file, readfail, fnet, anet, gnet) # None
    THEN http_refuse(file, readfail, fnet, anet, gnet)
    ELSE http_translate(file, readfail, predict_age_gender(file, fnet, anet, gnet))

\* valmiki_pb2.PredictResponse() with proto3 defaults
EmptyPredictResponse == [age_group |-> "", gender |-> <<>>, confidence |-> 0]

\* the error branch with equality in place of the substring test
rpc_error_code_exact(message) ==
    IF message = NoFaceDetected THEN "FAILED_PRECONDITION" ELSE "INTERNAL"

\* the error branch of ValmikiServicer.Predict, lines 40-48
rpc_error_code(message) ==
    IF Contains(message, NoFaceDetected) THEN "FAILED_PRECONDITION" ELSE "INTERNAL"

\* ValmikiServicer.Predict from line 34 on; confidence 0.95 is 95 percent
rpc_translate(request, out) ==
    LET result == out.val
    IN  IF out.raised # ""
        THEN Response("INTERNAL", <<"Internal", "server", "error:">> \o out.text,
                      EmptyPredictResponse, TRUE, out, request, FALSE)
        ELSE IF result = None
        THEN Response("INTERNAL", <<"Prediction", "failed">>,
                      EmptyPredictResponse, TRUE, out, request, FALSE)
        ELSE IF "error" \in DOMAIN result
        THEN Response(rpc_error_code(result.error), result.error,
                      EmptyPredictResponse, TRUE, out, request, FALSE)
        ELSE Response("OK", <<>>,
                      [age_group |-> map_age_to_group(result.age),
                       gender |-> PyLower(result.gender),
                       confidence |-> 95],
                      TRUE, out, request, FALSE)

\* ValmikiServicer.Predict, lines 25-29: the response to an empty request,
\* None otherwise
rpc_refuse(request) ==
    IF rpc_empty(request)
    THEN Response("INVALID_ARGUMENT", <<"Empty", "image", "data">>,
                  EmptyPredictResponse, FALSE, NotCalled, request, FALSE)
    ELSE None

\* ValmikiServicer.Predict
Predict(request, fnet, anet, gnet) ==
    IF rpc_refuse(request) # None
    THEN rpc_refuse(request)
    ELSE rpc_translate(request, predict_age_gender(request, fnet, anet, gnet))

(***************************************************************************)
(* Initial and idle values of the variable groups.                         *)
(***************************************************************************)
NoHttpResponse == Response(0, <<>>, NoBody, FALSE, NotCalled, None, FALSE)
NoRpcResponse == Response("", <<>>, NoBody, FALSE, NotCalled, None, FALSE)

NetInit ==
    /\ face_net = Unset /\ age_net = Unset /\ gender_net = Unset
    /\ lpc = "face"

RespInit ==
    /\ http_resp = NoHttpResponse /\ rpc_resp = NoRpcResponse /\ health_resp = 0

ReqsIdle == reqs = <<>>
MapIdle == age_range = <<>> /\ age_group = "unset"
FaceIdle ==
    /\ frame_w = 0 /\ frame_h = 0 /\ detections = <<>>
    /\ best_face_box = <<"unset">>
PipeIdle == image_bytes = None /\ pipeline_result = Raised("unset", <<>>)

(***************************************************************************)
(* Module-level model load, predictor.py lines 24-33: three readNet calls  *)
(* in one try block; a cv2.error from any of them sets all three to None.  *)
(***************************************************************************)
LoadFailed ==
    /\ face_net' = NoneHandle /\ age_net' = NoneHandle /\ gender_net' = NoneHandle
    /\ lpc' = "done"

\* one try/except per model: a failed face model leaves the others loading
LoadFaceSeparately ==
    /\ lpc = "face"
    /\ \E ok \in BOOLEAN :
        /\ face_net' = IF ok THEN LoadedNet ELSE NoneHandle
        /\ lpc' = "age"
        /\ UNCHANGED <<age_net, gender_net>>

LoadFace ==
    /\ lpc = "face"
    /\ \E ok \in BOOLEAN :
        IF ok
        THEN face_net' = LoadedNet /\ lpc' = "age" /\ UNCHANGED <<age_net, gender_net>>
        ELSE LoadFailed

LoadAge ==
    /\ lpc = "age"
    /\ \E ok \in BOOLEAN :
        IF ok
        THEN age_net' = LoadedNet /\ lpc' = "gender" /\ UNCHANGED <<face_net, gender_net>>
        ELSE LoadFailed

LoadGender ==
    /\ lpc = "gender"
    /\ \E ok \in BOOLEAN :
        IF ok
        THEN gender_net' = LoadedNet /\ lpc' = "done" /\ UNCHANGED <<face_net, age_net>>
        ELSE LoadFailed

(***************************************************************************)
(* Requests, each handled as a whole.                                      *)
(***************************************************************************)
PostPredict ==
    /\ lpc = "done"
    /\ \E file \in Payloads, readfail \in BOOLEAN :
        http_resp' = predict(file, readfail, face_net, age_net, gender_net)
    /\ UNCHANGED <<netVars, rpc_resp, health_resp>>

GrpcPredict ==
    /\ lpc = "done"
    /\ \E request \in Payloads :
        rpc_resp' = Predict(request, face_net, age_net, gender_net)
    /\ UNCHANGED <<netVars, http_resp, health_resp>>

GetHealth ==
    /\ lpc = "done"
    /\ health_resp' = health_check(face_net, age_net, gender_net)
    /\ UNCHANGED <<netVars, http_resp, rpc_resp>>

Init == NetInit /\ RespInit /\ ReqsIdle /\ MapIdle /\ FaceIdle /\ PipeIdle

Next ==
    \/ LoadFace /\ UNCHANGED <<respVars, reqs, mapVars, faceVars, pipeVars>>
    \/ LoadAge /\ UNCHANGED <<respVars, reqs, mapVars, faceVars, pipeVars>>
    \/ LoadGender /\ UNCHANGED <<respVars, reqs, mapVars, faceVars, pipeVars>>
    \/ PostPredict /\ UNCHANGED <<reqs, mapVars, faceVars, pipeVars>>
    \/ GrpcPredict /\ UNCHANGED <<reqs, mapVars, faceVars, pipeVars>>
    \/ GetHealth /\ UNCHANGED <<reqs, mapVars, faceVars, pipeVars>>

Spec == Init /\ [][Next]_vars

(***************************************************************************)
(* predict_age_gender as a function of its argument and the load state.    *)
(***************************************************************************)
Confidences == {FACE_CONFIDENCE_THRESHOLD, 60, 90}
StartCoords == {-1, 1, 3}
EndCoords == {1, 3}

Boxes ==
    { <<x1, y1, x2, y2>> :
        x1 \in StartCoords, y1 \in StartCoords \ {3}, x2 \in EndCoords, y2 \in EndCoords }

Detections == { Det(c, b) : c \in Confidences, b \in Boxes }

\* pictures with one detection each, of any confidence and box
OneDetectionPayloads ==
    { Payload(FALSE, "frame", <<>>, ImgW, ImgH, << d >>, o.g, o.a, "") :
        d \in Detections, o \in ClassifierOutputs }

CallPipeline ==
    /\ lpc = "done"
    /\ \E bytes \in Payloads \cup OneDetectionPayloads :
        /\ image_bytes' = bytes
        /\ pipeline_result' = predict_age_gender(bytes, face_net, age_net, gender_net)
    /\ UNCHANGED netVars

InitPipe == Init

NextPipe ==
    \/ LoadFace /\ UNCHANGED <<respVars, reqs, mapVars, faceVars, pipeVars>>
    \/ LoadAge /\ UNCHANGED <<respVars, reqs, mapVars, faceVars, pipeVars>>
    \/ LoadGender /\ UNCHANGED <<respVars, reqs, mapVars, faceVars, pipeVars>>
    \/ CallPipeline /\ UNCHANGED <<respVars, reqs, mapVars, faceVars>>

SpecPipe == InitPipe /\ [][NextPipe]_vars

(***************************************************************************)
(* map_age_to_group over bounded strings and the eight buckets.            *)
(***************************************************************************)
Alphabet == {"(", ")", "-", "+", " ", "_", "0", "1", "2", "3", "4", "5", "9"}

Strings(n) == UNION { [1..k -> Alphabet] : k \in 0..n }

BucketSet == { AGE_BUCKETS[i] : i \in 1..Len(AGE_BUCKETS) }

MapInputs ==
    Strings(MaxStrLen) \cup BucketSet \cup { <<"g", "a", "r", "b", "a", "g", "e">> }

MapAge ==
    /\ age_group = "unset"
    /\ age_group' = map_age_to_group(age_range)
    /\ UNCHANGED age_range

InitMap ==
    /\ age_range \in MapInputs /\ age_group = "unset"
    /\ NetInit /\ RespInit /\ ReqsIdle /\ FaceIdle /\ PipeIdle

NextMap == MapAge /\ UNCHANGED <<netVars, respVars, reqs, faceVars, pipeVars>>

SpecMap == InitMap /\ [][NextMap]_vars

(***************************************************************************)
(* _find_face over bounded detection lists.                                *)
(***************************************************************************)
DetectionLists == UNION { [1..k -> Detections] : k \in 0..MaxDets }

FindFace ==
    /\ best_face_box = <<"unset">>
    /\ best_face_box' = find_face(LoadedNet, frame_w, frame_h, detections)
    /\ UNCHANGED <<frame_w, frame_h, detections>>

InitFace ==
    /\ frame_w = ImgW /\ frame_h = ImgH
    /\ detections \in DetectionLists
    /\ best_face_box = <<"unset">>
    /\ NetInit /\ RespInit /\ ReqsIdle /\ MapIdle /\ PipeIdle

NextFace == FindFace /\ UNCHANGED <<netVars, respVars, reqs, mapVars, pipeVars>>

SpecFace == InitFace /\ [][NextFace]_vars

(***************************************************************************)
(* Properties of the frontends (specification Spec).                       *)
(***************************************************************************)
Ready == Truthy(face_net) /\ Truthy(age_net) /\ Truthy(gender_net)
AllNone == IsNone(face_net) /\ IsNone(age_net) /\ IsNone(gender_net)

HttpAnswered == http_resp.status # 0
RpcAnswered == rpc_resp.status # ""

IsErrorDict(v) == v # None /\ DOMAIN v = {"error"}
IsSuccessDict(v) == v # None /\ DOMAIN v = {"age", "gender"}

\* C1: with the models not ready, a Predict request at either frontend, with
\* any payload, is refused with the frontend's unavailable status (HTTP 503,
\* RPC INTERNAL) and predict_age_gender is not invoked.
C1_NotReadyRefusedWithoutPipeline ==
    (lpc = "done" /\ ~Ready) =>
        /\ HttpAnswered => (http_resp.status = 503 /\ ~http_resp.invoked)
        /\ RpcAnswered => (rpc_resp.status = "INTERNAL" /\ ~rpc_resp.invoked)

\* C2 as stated: an empty payload gets HTTP 400 and RPC INVALID_ARGUMENT in
\* every readiness state, and the pipeline is not invoked.
C2_EmptyRejectedInEveryState ==
    /\ (HttpAnswered /\ http_resp.image.empty) =>
           (http_resp.status = 400 /\ ~http_resp.invoked)
    /\ (RpcAnswered /\ rpc_resp.image.empty) =>
           (rpc_resp.status = "INVALID_ARGUMENT" /\ ~rpc_resp.invoked)

\* C2 amended: an empty payload never reaches the pipeline; the RPC frontend
\* answers INVALID_ARGUMENT in every readiness state, the HTTP frontend
\* answers 400 when the models are ready and 503 when they are not.
C2_EmptyRejected ==
    /\ (HttpAnswered /\ http_resp.image.empty) =>
           /\ ~http_resp.invoked
           /\ http_resp.status = IF Ready THEN 400 ELSE 503
    /\ (RpcAnswered /\ rpc_resp.image.empty) =>
           (rpc_resp.status = "INVALID_ARGUMENT" /\ ~rpc_resp.invoked)

C2_Witness ==
    /\ Ready
    /\ HttpAnswered /\ http_resp.image.empty /\ ~http_resp.readfail
    /\ http_resp.status = 400
    /\ RpcAnswered /\ rpc_resp.image.empty /\ rpc_resp.status = "INVALID_ARGUMENT"

\* C3: once the load has failed, every Predict request gets HTTP 503 and RPC
\* INTERNAL whatever its payload, and GET /health answers 503 exactly when
\* POST /predict is refused for readiness, 200 otherwise.
C3_NotReadyAnswers ==
    /\ (lpc = "done" /\ ~Ready) =>
           /\ HttpAnswered => http_resp.status = 503
           /\ RpcAnswered => rpc_resp.status = "INTERNAL"
    /\ (lpc = "done" /\ health_resp # 0) =>
           /\ health_resp = (IF Ready THEN 200 ELSE 503)
           /\ HttpAnswered => (health_resp = 503 <=> http_resp.status = 503)

HttpClass(st) ==
    CASE st = 200 -> "success" [] st = 400 -> "client" [] st = 500 -> "server"
      [] OTHER -> "other"

RpcClass(code) ==
    CASE code = "OK" -> "success" [] code = "FAILED_PRECONDITION" -> "client"
      [] code = "INTERNAL" -> "server" [] OTHER -> "other"

\* the class the claim gives a pipeline result
ResultClass(v) ==
    IF IsErrorDict(v)
    THEN IF Contains(v.error, NoFaceDetected) THEN "client" ELSE "server"
    ELSE IF IsSuccessDict(v) THEN "success" ELSE "server"

HttpClassified == HttpAnswered /\ Ready /\ ~http_resp.image.empty /\ ~http_resp.readfail
RpcClassified == RpcAnswered /\ Ready /\ ~rpc_resp.image.empty

\* C4: with the models ready and a non-empty payload, an error containing
\* "No face detected" gives HTTP 400 / RPC FAILED_PRECONDITION, any other
\* error HTTP 500 / RPC INTERNAL, a success HTTP 200 / RPC OK; the frontends
\* never put the same pipeline result in different classes.
C4_SameClassification ==
    /\ HttpClassified =>
           /\ http_resp.invoked
           /\ HttpClass(http_resp.status) = ResultClass(http_resp.result.val)
    /\ RpcClassified =>
           /\ rpc_resp.invoked
           /\ RpcClass(rpc_resp.status) = ResultClass(rpc_resp.result.val)
    /\ (HttpClassified /\ RpcClassified /\ http_resp.result = rpc_resp.result) =>
           HttpClass(http_resp.status) = RpcClass(rpc_resp.status)

C4_Witness ==
    /\ HttpClassified /\ RpcClassified
    /\ http_resp.result = rpc_resp.result
    /\ IsErrorDict(http_resp.result.val)
    /\ http_resp.result.val.error # NoFaceDetected
    /\ http_resp.status = 400 /\ rpc_resp.status = "FAILED_PRECONDITION"

\* C10: in every load state a missing model is never reported as "No face
\* detected": after the load the three handles are all usable or all None,
\* and a call that finds a model missing returns None at the pipeline's own
\* check, before _find_face is reached.
C10_MissingModelNeverNoFace ==
    /\ lpc = "done" => (Ready \/ AllNone)
    /\ (lpc = "done" /\ ~Truthy(face_net)) =>
           /\ (RpcAnswered /\ rpc_resp.invoked) =>
                  (rpc_resp.result = Returned(None) /\ rpc_resp.status = "INTERNAL")
           /\ (HttpAnswered /\ http_resp.invoked) => http_resp.result = Returned(None)
    /\ (RpcAnswered /\ rpc_resp.invoked /\ IsErrorDict(rpc_resp.result.val)
          /\ Contains(rpc_resp.result.val.error, NoFaceDetected)) => Truthy(face_net)

C10_Witness ==
    /\ lpc = "done" /\ AllNone
    /\ RpcAnswered /\ rpc_resp.invoked /\ rpc_resp.result = Returned(None)
    /\ rpc_resp.image.dets # <<>>

(***************************************************************************)
(* Properties of predict_age_gender (specification SpecPipe).              *)
(***************************************************************************)
PipelineCalled == pipeline_result.raised # "unset"

\* the cases in which the function returns None: a model handle is None,
\* imdecode returned None, or the decoded frame has a zero dimension
AbsentCase ==
    \/ IsNone(age_net) \/ IsNone(gender_net)
    \/ image_bytes.dec = "none"
    \/ (image_bytes.dec = "frame" /\ (image_bytes.h = 0 \/ image_bytes.w = 0))

\* C5 as stated: for every input and load state predict_age_gender returns
\* a value with exactly one variant populated, never raises and never
\* returns an absent result; an undecodable picture or an unavailable model
\* gives an error variant other than "No face detected".
C5_AlwaysOneVariant ==
    PipelineCalled =>
        /\ pipeline_result.raised = ""
        /\ IsErrorDict(pipeline_result.val) \/ IsSuccessDict(pipeline_result.val)
        /\ AbsentCase =>
               (IsErrorDict(pipeline_result.val)
                   /\ pipeline_result.val.error # NoFaceDetected)

\* C5 amended: predict_age_gender never raises; it returns None exactly when
\* a model is unavailable, the bytes do not decode or the frame has a zero
\* dimension, and otherwise a dict with exactly one variant populated,
\* {age, gender} (a fixed bucket and label) or {error}; so those failures are
\* still distinct from "No face detected".
C5_OneVariantOrNone ==
    PipelineCalled =>
        /\ pipeline_result.raised = ""
        /\ \/ pipeline_result.val = None
           \/ IsErrorDict(pipeline_result.val)
           \/ IsSuccessDict(pipeline_result.val)
        /\ pipeline_result.val = None <=> AbsentCase
        /\ IsSuccessDict(pipeline_result.val) =>
               /\ pipeline_result.val.age \in BucketSet
               /\ pipeline_result.val.gender \in {GENDER_LIST[1], GENDER_LIST[2]}

C5_Witness ==
    /\ PipelineCalled /\ Ready
    /\ ~image_bytes.empty /\ image_bytes.dec = "none"
    /\ pipeline_result = Returned(None)

(***************************************************************************)
(* Properties of map_age_to_group (specification SpecMap).                 *)
(***************************************************************************)
\* the text left of the first "-" once surrounding parentheses are dropped
LeftOfFirstDash(text) ==
    LET inner == PyStrip(text, {"(", ")"})
        dashes == { i \in 1..Len(inner) : inner[i] = "-" }
        first == IF dashes = {} THEN Len(inner) + 1
                 ELSE CHOOSE i \in dashes : \A j \in dashes : i <= j
    IN  SubSeq(inner, 1, first - 1)

GroupOfMinimum(m) ==
    CASE m < 13 -> "child"
      [] m >= 13 /\ m < 20 -> "teen"
      [] m >= 20 /\ m < 35 -> "young_adult"
      [] m >= 35 /\ m < 50 -> "adult"
      [] OTHER -> "senior"

BucketGroups ==
    <<"child", "child", "child", "teen", "young_adult", "adult", "adult", "senior">>

\* C7: map_age_to_group is total: with the text left of the first "-" of the
\* stripped string parsing as integer m it returns child (m < 13), teen
\* (m < 20), young_adult (m < 35), adult (m < 50), else senior, so the eight
\* buckets map to child, child, child, teen, young_adult, adult, adult,
\* senior; when the parse fails it returns "adult" and never raises.
C7_MapAgeToGroup ==
    age_group # "unset" =>
        /\ age_group \in AgeGroups
        /\ age_group =
               (IF PyInt(LeftOfFirstDash(age_range)).raised = ""
                THEN GroupOfMinimum(PyInt(LeftOfFirstDash(age_range)).val)
                ELSE "adult")
        /\ \A i \in 1..Len(AGE_BUCKETS) :
               age_range = AGE_BUCKETS[i] => age_group = BucketGroups[i]

C7_Witness ==
    /\ age_group = "adult"
    /\ age_range \notin BucketSet
    /\ PyInt(LeftOfFirstDash(age_range)).raised # ""
    /\ Len(age_range) > 0

(***************************************************************************)
(* Properties of _find_face (specification SpecFace).                      *)
(***************************************************************************)
FaceSearched == best_face_box # <<"unset">>

ClampedBox(i) == ClampBox(ScaleBox(detections[i].box, frame_w, frame_h), frame_w, frame_h)

ValidBox(b) == b[3] > b[1] /\ b[4] > b[2]

Qualifying == { i \in 1..Len(detections) : detections[i].confidence > FACE_CONFIDENCE_THRESHOLD }

\* the first-encountered detection of maximal confidence above the threshold
Winner ==
    CHOOSE i \in Qualifying :
        /\ \A j \in Qualifying : detections[j].confidence <= detections[i].confidence
        /\ \A j \in Qualifying :
               detections[j].confidence = detections[i].confidence => i <= j

\* C8: the result is decided by the winning detection alone: empty when no
\* detection exceeds the threshold, empty when the winner's clamped box has
\* no area, otherwise the winner's clamped box; the box of a detection that
\* is not the winner is never returned.
C8_WinnerDecides ==
    FaceSearched =>
        best_face_box =
            (IF Qualifying = {} THEN None
             ELSE IF ValidBox(ClampedBox(Winner)) THEN ClampedBox(Winner)
             ELSE None)

\* C9: every box returned for a w x h picture satisfies
\* 0 <= left < right <= w - 1 and 0 <= top < bottom <= h - 1, whatever the
\* detection coordinates; it is the clamped box of a detection above the
\* threshold, and a candidate whose clamped box has no area is not returned.
C9_BoxWithinImage ==
    (FaceSearched /\ best_face_box # None) =>
        /\ 0 <= best_face_box[1] /\ best_face_box[1] < best_face_box[3]
        /\ best_face_box[3] <= frame_w - 1
        /\ 0 <= best_face_box[2] /\ best_face_box[2] < best_face_box[4]
        /\ best_face_box[4] <= frame_h - 1
        /\ \E i \in Qualifying :
               LET raw == ScaleBox(detections[i].box, frame_w, frame_h)
               IN  /\ best_face_box[1] = Max(0, raw[1])
                   /\ best_face_box[2] = Max(0, raw[2])
                   /\ best_face_box[3] = Min(frame_w - 1, raw[3])
                   /\ best_face_box[4] = Min(frame_h - 1, raw[4])

C9_Witness ==
    /\ FaceSearched /\ best_face_box # None
    /\ Len(detections) = 2
    /\ \E i \in Qualifying :
          LET raw == ScaleBox(detections[i].box, frame_w, frame_h)
          IN  /\ raw[1] < 0 /\ raw[3] > frame_w - 1 /\ raw[4] > frame_h - 1
              /\ best_face_box = ClampedBox(i)
    /\ \E j \in 1..Len(detections) : ~ValidBox(ClampedBox(j))

(***************************************************************************)
(* Requests in flight at the same time (specification SpecConc).           *)
(*                                                                         *)
(* gRPC calls run on the threads of serve()'s pool; main.predict runs on   *)
(* the event loop and calls the pipeline without awaiting, so HTTP         *)
(* requests do not interleave with each other inside the pipeline, while   *)
(* pool threads interleave with everything.  A step is one call on a       *)
(* shared net: setInput or forward.                                        *)
(***************************************************************************)
max_workers == 10

IdleReq ==
    [fe |-> "idle", pc |-> "idle", image |-> None, face_out |-> Returned(None),
     gender_out |-> Returned(None), age_out |-> Returned(None), resp |-> None]

Slots == 1..MaxReq

PipelinePcs == {"face_set", "face_fwd", "gender_set", "gender_fwd", "age_set", "age_fwd"}

\* pictures that decode: no face or one face, two different classifications
ConcPayloads ==
    { p \in FramePayloads :
        /\ p.dets \in { <<>>, << Det(90, <<0, 0, 1, 1>>) >> }
        /\ p.gender_preds \in { <<9, 1>>, <<1, 9>> } }
    \cup { Payload(TRUE, "none", <<>>, 0, 0, <<>>, NoPreds, NoPreds, "") }

\* the event loop is inside another HTTP request's pipeline call
LoopBusy(i) ==
    \E j \in Slots \ {i} : reqs[j].fe = "http" /\ reqs[j].pc \in PipelinePcs

CanStep(i) == reqs[i].fe = "rpc" \/ ~LoopBusy(i)

Translate(r, out) ==
    IF r.fe = "http" THEN http_translate(r.image, FALSE, out)
    ELSE rpc_translate(r.image, out)

\* the call returns: the frontend builds its response
Finalize(i, r) ==
    reqs' = [reqs EXCEPT ![i] =
        [r EXCEPT !.pc = "done",
                  !.resp = Translate(r, predict_age_gender_from(r.image, face_net,
                               age_net, gender_net, r.face_out, r.gender_out, r.age_out))]]

Arrive(i) ==
    /\ reqs[i].pc = "idle"
    /\ \E fe \in {"http", "rpc"}, image \in ConcPayloads :
        /\ fe = "rpc" =>
               Cardinality({ j \in Slots : reqs[j].fe = "rpc" /\ reqs[j].pc # "done" })
                   < max_workers
        /\ reqs' = [reqs EXCEPT ![i] = [IdleReq EXCEPT !.fe = fe, !.pc = "gate",
                                                      !.image = image]]
    /\ UNCHANGED netVars

\* the frontend's checks and the pipeline up to the first use of a net
Enter(i) ==
    /\ reqs[i].pc = "gate" /\ CanStep(i)
    /\ LET r == reqs[i]
           refused == IF r.fe = "http"
                      THEN http_refuse(r.image, FALSE, face_net, age_net, gender_net)
                      ELSE rpc_refuse(r.image)
           decided == \/ IsNone(age_net) \/ IsNone(gender_net)
                      \/ r.image.dec # "frame"
                      \/ r.image.h = 0 \/ r.image.w = 0
                      \/ face_net.state # "net"
       IN  IF refused # None
           THEN reqs' = [reqs EXCEPT ![i] = [r EXCEPT !.pc = "done", !.resp = refused]]
           ELSE IF decided THEN Finalize(i, r)
           ELSE reqs' = [reqs EXCEPT ![i].pc = "face_set"]
    /\ UNCHANGED netVars

\* face_net.setInput(blob), predictor.py line 44
FaceSetInput(i) ==
    /\ reqs[i].pc = "face_set" /\ CanStep(i)
    /\ face_net' = SetInput(face_net, Blob(reqs[i].image, WholeFrame(reqs[i].image)))
    /\ reqs' = [reqs EXCEPT ![i].pc = "face_fwd"]
    /\ UNCHANGED <<age_net, gender_net, lpc>>

\* detections = face_net.forward() and the loop over them, lines 45-71
FaceForward(i) ==
    /\ reqs[i].pc = "face_fwd" /\ CanStep(i)
    /\ LET r == [reqs[i] EXCEPT !.face_out = FaceNetForward(face_net)]
           face_box == find_face(face_net, r.image.w, r.image.h, r.face_out.val)
       IN  IF face_box = None
              \/ CropSize(CropRegion(face_box, r.image.w, r.image.h)) = 0
           THEN Finalize(i, r)
           ELSE reqs' = [reqs EXCEPT ![i] = [r EXCEPT !.pc = "gender_set"]]
    /\ UNCHANGED netVars

FaceBlob(r) ==
    Blob(r.image,
         CropRegion(find_face(face_net, r.image.w, r.image.h, r.face_out.val),
                    r.image.w, r.image.h))

\* gender_net.setInput(face_blob), line 124
GenderSetInput(i) ==
    /\ reqs[i].pc = "gender_set" /\ CanStep(i)
    /\ gender_net' = SetInput(gender_net, FaceBlob(reqs[i]))
    /\ reqs' = [reqs EXCEPT ![i].pc = "gender_fwd"]
    /\ UNCHANGED <<face_net, age_net, lpc>>

\* gender_preds = gender_net.forward(), line 125
GenderForward(i) ==
    /\ reqs[i].pc = "gender_fwd" /\ CanStep(i)
    /\ LET r == [reqs[i] EXCEPT !.gender_out = GenderNetForward(gender_net)]
       IN  IF r.gender_out.raised # "" THEN Finalize(i, r)
           ELSE reqs' = [reqs EXCEPT ![i] = [r EXCEPT !.pc = "age_set"]]
    /\ UNCHANGED netVars

\* age_net.setInput(face_blob), line 130
AgeSetInput(i) ==
    /\ reqs[i].pc = "age_set" /\ CanStep(i)
    /\ age_net' = SetInput(age_net, FaceBlob(reqs[i]))
    /\ reqs' = [reqs EXCEPT ![i].pc = "age_fwd"]
    /\ UNCHANGED <<face_net, gender_net, lpc>>

\* age_preds = age_net.forward(), line 131, and the return
AgeForward(i) ==
    /\ reqs[i].pc = "age_fwd" /\ CanStep(i)
    /\ Finalize(i, [reqs[i] EXCEPT !.age_out = AgeNetForward(age_net)])
    /\ UNCHANGED netVars

\* the response is sent; the worker takes another request
Deliver(i) ==
    /\ reqs[i].pc = "done"
    /\ reqs' = [reqs EXCEPT ![i] = IdleReq]
    /\ UNCHANGED netVars

InitConc ==
    /\ face_net = LoadedNet /\ age_net = LoadedNet /\ gender_net = LoadedNet
    /\ lpc = "done"
    /\ reqs = [i \in Slots |-> IdleReq]
    /\ RespInit /\ MapIdle /\ FaceIdle /\ PipeIdle

OthersIdle == UNCHANGED <<respVars, mapVars, faceVars, pipeVars>>

NextConc ==
    \/ \E i \in Slots : Arrive(i) /\ OthersIdle
    \/ \E i \in Slots : Enter(i) /\ OthersIdle
    \/ \E i \in Slots : FaceSetInput(i) /\ OthersIdle
    \/ \E i \in Slots : FaceForward(i) /\ OthersIdle
    \/ \E i \in Slots : GenderSetInput(i) /\ OthersIdle
    \/ \E i \in Slots : GenderForward(i) /\ OthersIdle
    \/ \E i \in Slots : AgeSetInput(i) /\ OthersIdle
    \/ \E i \in Slots : AgeForward(i) /\ OthersIdle
    \/ \E i \in Slots : Deliver(i) /\ OthersIdle

SpecConc == InitConc /\ [][NextConc]_vars

\* what the request would get if it ran alone on its own input
AloneResponse(r) ==
    IF r.fe = "http"
    THEN predict(r.image, FALSE, LoadedNet, LoadedNet, LoadedNet)
    ELSE Predict(r.image, LoadedNet, LoadedNet, LoadedNet)

\* C6: under any interleaving of in-flight requests each request's result is
\* the one it would get running alone on its own input (no age / gender is
\* computed from another request's tensor, which needs that no step stores
\* request state in a shared model handle).
C6_RequestsIsolated ==
    \A i \in Slots : reqs[i].pc = "done" => reqs[i].resp = AloneResponse(reqs[i])

====
